---- MODULE Spec2Model ----
(***************************************************************************)
(* A model of cannapy.us.wa.wslcb.portal: the WSLCBPortal class, its lazy  *)
(* sodapy client, and the count-then-page loop of get_entire_dataset,      *)
(* running against a remote dataset that another process may write.       *)
(*                                                                         *)
(* Row lists are kept run-length encoded: a row is identified by its       *)
(* position in the order_by order (its key), and a list of rows is a       *)
(* sequence of runs [lo, hi) of consecutive keys.  This keeps the page     *)
(* size at the program's 100000 while the state stays small.               *)
(***************************************************************************)
EXTENDS Integers, Sequences, FiniteSets, TLC

VARIABLES
    env,          \* os.environ's WSLCB_APP_TOKEN: Absent or Some(string)
    ctor_arg,     \* the app_token argument __init__ was called with
    _app_token,   \* self._app_token
    _client,      \* self._client: None or Some(handle)
    Socrata_calls,\* how many times Socrata(...) has been constructed
    remote,       \* the remote dataset: the set of segments it holds
    dirty,        \* the remote was written since the last count query
    present,      \* segments held by the remote ever since the count query
    anomalies,    \* kinds of race damage seen in results returned so far
    pc,           \* "idle", or "paging" inside get_entire_dataset's loop
    call,         \* the current (or last) API call and its arguments
    count,        \* get_entire_dataset's local: count
    offsets,      \* get_entire_dataset's local: offsets the loop has left
    dataset,      \* get_entire_dataset's local: dataset
    log,          \* the calls this API call made to its collaborators
    outcome,      \* how the last API call ended
    calls,        \* how many API calls have been made
    writes        \* how many times the remote dataset has been written

vars == <<env, ctor_arg, _app_token, _client, Socrata_calls, remote, dirty,
          present, anomalies, pc, call, count, offsets, dataset, log, outcome,
          calls, writes>>

(***************************************************************************)
(* Optional values.                                                        *)
(***************************************************************************)
None == <<>>
Absent == <<>>
Some(x) == <<x>>

(***************************************************************************)
(* Module constants of portal.py.                                          *)
(***************************************************************************)
WSLCB_PORTAL_URL == "data.lcb.wa.gov"

WSLCB_PORTAL_DATASET_COLUMNS ==
    ("3qmf-vgdg" :> <<"date", "license_number", "county_name", "city_name",
                      "action">>)
 @@ ("8rrd-wvpk" :> <<"sales_date", "sales_year_month", "pounds_harvested",
                      "grams_harvested">>)
 @@ ("bhbp-x4eb" :> <<"license", "type", "createdate", "active",
                      "organization", "address", "address_line_2", "city",
                      "state", "zip", "county", "dayphone", "ubi">>)
 @@ ("dgm4-3cm6" :> <<"visit_date", "license_number", "county_name",
                      "city_name", "case", "violation_code", "wac_code",
                      "penalty_type">>)
 @@ ("kdyh-jjfc" :> <<"sales_date", "sales_year_month", "type",
                      "child_usableweight_grams",
                      "child_usableweight_pounds">>)
 @@ ("msk5-ts9q" :> <<"sessiontimedate", "orgname", "inventory_type",
                      "usableweight_grams", "usableweight_pounds", "price">>)
 @@ ("w7wg-8m52" :> <<"date", "license_number", "city_name", "county_name",
                      "activity">>)
 @@ ("vbqh-2tf4" :> <<"sales_date", "sales_year_month", "organization",
                      "type", "childweight_pounds", "childweight_grams">>)

\* limit = 100000 in get_entire_dataset
limit == 100000

\* a larger cap
get_dataset_limit_tenfold == 10 * 100000

\* limit=100000 in get_dataset
get_dataset_limit == 100000

(***************************************************************************)
(* Inputs the model draws from.                                            *)
(***************************************************************************)
\* How many API calls, and how many writes of the remote dataset by another
\* process, a behaviour holds.
MaxCalls == 3
MaxWrites == 2

CtorArgs == {"", "arg-token"}
EnvValues == {Absent, Some("env-token")}
SetValues == {"set-token"}
DatasetIds == {"3qmf-vgdg", "zzzz-0000"}
OrderBys == {"date"}

\* Row keys at which the remote dataset's segments begin and end.
Cuts == <<0, 1, 100000, 100001, 250000>>
Segments == 1..(Len(Cuts) - 1)
Seg(s) == [lo |-> Cuts[s], hi |-> Cuts[s + 1]]

(***************************************************************************)
(* Row lists, run-length encoded.                                          *)
(***************************************************************************)
RunLen(r) == r.hi - r.lo

RECURSIVE RowCount(_)
\* len(rows)
RowCount(rows) ==
    IF rows = <<>> THEN 0 ELSE RunLen(Head(rows)) + RowCount(Tail(rows))

RECURSIVE DropRows(_, _)
\* rows[n:]
DropRows(rows, n) ==
    IF rows = <<>> \/ n <= 0 THEN rows
    ELSE IF n >= RunLen(Head(rows))
         THEN DropRows(Tail(rows), n - RunLen(Head(rows)))
         ELSE <<[lo |-> Head(rows).lo + n, hi |-> Head(rows).hi]>> \o Tail(rows)

RECURSIVE TakeRows(_, _)
\* rows[:n]
TakeRows(rows, n) ==
    IF rows = <<>> \/ n <= 0 THEN <<>>
    ELSE IF n >= RunLen(Head(rows))
         THEN <<Head(rows)>> \o TakeRows(Tail(rows), n - RunLen(Head(rows)))
         ELSE <<[lo |-> Head(rows).lo, hi |-> Head(rows).lo + n]>>

RECURSIVE Canonical(_)
\* The one encoding of a row list with no empty run and no two runs that
\* could be written as one: two encodings list the same rows in the same
\* order exactly when their canonical forms are equal.
Canonical(rows) ==
    IF rows = <<>> THEN <<>>
    ELSE IF RunLen(Head(rows)) <= 0 THEN Canonical(Tail(rows))
    ELSE LET rest == Canonical(Tail(rows)) IN
         IF rest # <<>> /\ Head(rest).lo = Head(rows).hi
         THEN <<[lo |-> Head(rows).lo, hi |-> Head(rest).hi]>> \o Tail(rest)
         ELSE <<Head(rows)>> \o rest

\* Every row with a key in [r.lo, r.hi) occurs in rows.
Covers(rows, r) ==
    \A p \in {r.lo} \cup {rows[i].hi : i \in DOMAIN rows} :
        (r.lo <= p /\ p < r.hi) =>
            \E i \in DOMAIN rows : rows[i].lo <= p /\ p < rows[i].hi

\* Some row occurs twice in rows.
HasDuplicate(rows) ==
    \E i, j \in DOMAIN rows :
        /\ i < j
        /\ rows[i].lo < rows[j].hi
        /\ rows[j].lo < rows[i].hi
        /\ rows[i].lo < rows[i].hi
        /\ rows[j].lo < rows[j].hi

(***************************************************************************)
(* The remote service (sodapy.Socrata against the portal).                 *)
(***************************************************************************)
RECURSIVE SegRows(_, _)
\* The rows of the segments in held, from segment s on, in key order.
SegRows(held, s) ==
    IF s > Len(Cuts) - 1 THEN <<>>
    ELSE (IF s \in held THEN <<Seg(s)>> ELSE <<>>) \o SegRows(held, s + 1)

\* The remote dataset's rows in order_by order.
RemoteRows(held) == SegRows(held, 1)

Digit == ("0" :> 0) @@ ("1" :> 1) @@ ("2" :> 2) @@ ("3" :> 3) @@ ("4" :> 4)
      @@ ("5" :> 5) @@ ("6" :> 6) @@ ("7" :> 7) @@ ("8" :> 8) @@ ("9" :> 9)
DigitChar == <<"0", "1", "2", "3", "4", "5", "6", "7", "8", "9">>

RECURSIVE Decimal(_)
\* The decimal string (a sequence of characters) the service sends for n.
Decimal(n) ==
    IF n < 10 THEN <<DigitChar[n + 1]>>
    ELSE Decimal(n \div 10) \o <<DigitChar[(n % 10) + 1]>>

\* The replies to get(dataset_id, select='count(*)').
CountReplies(held) ==
    { [err |-> TRUE,  body |-> <<>>],
      [err |-> FALSE, body |-> <<>>],
      [err |-> FALSE, body |-> <<[count |-> <<"N", "a", "N">>]>>],
      [err |-> FALSE, body |-> <<[count |-> Decimal(RowCount(RemoteRows(held)))]>>] }

\* The replies to get(dataset_id, order=..., offset=..., limit=...): an
\* error, or the rows at positions offset .. offset + limit - 1.
PageReplies(held, offset, lim) ==
    { [err |-> TRUE,  body |-> <<>>],
      [err |-> FALSE, body |-> TakeRows(DropRows(RemoteRows(held), offset), lim)] }

\* The replies to get_metadata(dataset_id).
MetadataReplies ==
    { [err |-> TRUE,  body |-> [rowsUpdatedAt |-> Absent]],
      [err |-> FALSE, body |-> [rowsUpdatedAt |-> Absent]],
      [err |-> FALSE, body |-> [rowsUpdatedAt |-> Some(1500000000)]] }

\* Offsets of the host's local time zone from UTC, in seconds.
UtcOffsets == {0 - 28800, 0}

(***************************************************************************)
(* Python built-ins and the collaborators' constructors.                   *)
(***************************************************************************)
\* os.getenv(name, default), given the variable's entry in the environment
getenv(entry, default) == IF entry = Absent THEN default ELSE Head(entry)

RECURSIVE range_inclusive(_, _, _)
\* range with its stop included
range_inclusive(start, stop, step) ==
    IF start > stop THEN <<>>
    ELSE <<start>> \o range_inclusive(start + step, stop, step)

RECURSIVE range_test_after(_, _, _)
\* range as a loop that tests only after each turn
range_test_after(start, stop, step) ==
    <<start>> \o
    (IF start + step >= stop THEN <<>>
     ELSE range_test_after(start + step, stop, step))

RECURSIVE range(_, _, _)
\* range(start, stop, step) with step > 0, as the sequence it yields
range(start, stop, step) ==
    IF start >= stop THEN <<>>
    ELSE <<start>> \o range(start + step, stop, step)

\* Whether int(s) accepts the string s (digits only, in this model).
IsNumeric(s) == s # <<>> /\ \A i \in DOMAIN s : s[i] \in DOMAIN Digit

RECURSIVE int(_)
\* int(s) of a string of digits
int(s) ==
    IF Len(s) = 1 THEN Digit[s[1]]
    ELSE 10 * int(SubSeq(s, 1, Len(s) - 1)) + Digit[s[Len(s)]]

\* the list replaced by the page
extend_assigns(list, page) == page

\* the page put in front of the list
extend_in_front(list, page) == page \o list

\* list.extend: the list after dataset.extend(page)
extend(list, page) == list \o page

\* sodapy.Socrata(domain, app_token); serial stands for the object's identity
Socrata(domain, app_token) ==
    [domain |-> domain, app_token |-> app_token, serial |-> Socrata_calls + 1]

\* pd.DataFrame.from_records(data, columns=columns)
from_records(data, columns) == [columns |-> columns, records |-> data]

\* time.localtime(secs) on a host utc_offset seconds from UTC, as the day
\* since the epoch and the second of that day
localtime(secs, utc_offset) ==
    [day |-> (secs + utc_offset) \div 86400,
     second |-> (secs + utc_offset) % 86400]

(***************************************************************************)
(* How an API call ends, and the record of a call to a collaborator.       *)
(***************************************************************************)
Pending == [kind |-> "pending"]
ReturnNone == [kind |-> "none"]
Raise(exc) == [kind |-> "raise", exc |-> exc]
ReturnInt(n) == [kind |-> "int", value |-> n]
ReturnRows(rows) == [kind |-> "rows", rows |-> rows]
ReturnFrame(df) == [kind |-> "frame", frame |-> df]
ReturnMetadata(md) == [kind |-> "metadata", metadata |-> md]
ReturnTime(t) == [kind |-> "struct_time", time |-> t]

Request(fn, dataset_id, select, order, offset, lim, via, ok, reply) ==
    [fn |-> fn, dataset_id |-> dataset_id, select |-> select, order |-> order,
     offset |-> offset, limit |-> lim, via |-> via, ok |-> ok, reply |-> reply]

(***************************************************************************)
(* WSLCBPortal                                                             *)
(***************************************************************************)
\* __init__ with the environment variable read first
init_env_first(app_token, environ) ==
    IF environ # Absent THEN Head(environ) ELSE app_token

\* __init__(self, app_token=''): the value self._app_token is given
__init__(app_token, environ) ==
    IF app_token = "" THEN getenv(environ, "") ELSE app_token

\* The client property: self._client once the property has been read; its
\* head is the handle the property returns.
client ==
    IF _client = None
    THEN Some(Socrata(WSLCB_PORTAL_URL, _app_token))
    ELSE _client

\* A read of self.client inside a method.
ReadClient ==
    /\ _client' = client
    /\ Socrata_calls' = IF _client = None THEN Socrata_calls + 1
                                          ELSE Socrata_calls

Locals == <<count, offsets, dataset>>
Ghosts == <<dirty, present, anomalies>>
World == <<env, ctor_arg, remote, writes>>

\* the setter also dropping the cached handle
set_app_token_resets(value) ==
    /\ pc = "idle"
    /\ calls < MaxCalls
    /\ calls' = calls + 1
    /\ _app_token' = value
    /\ _client' = None
    /\ call' = [name |-> "app_token.setter", args |-> <<value>>]
    /\ log' = <<>>
    /\ outcome' = ReturnNone
    /\ UNCHANGED <<Socrata_calls, pc, Locals, Ghosts, World>>

\* app_token.setter
set_app_token(value) ==
    /\ pc = "idle"
    /\ calls < MaxCalls
    /\ calls' = calls + 1
    /\ _app_token' = value
    /\ call' = [name |-> "app_token.setter", args |-> <<value>>]
    /\ log' = <<>>
    /\ outcome' = ReturnNone
    /\ UNCHANGED <<_client, Socrata_calls, pc, Locals, Ghosts, World>>

\* get_dataset_metadata's return value or exception, given the reply
get_dataset_metadata_result(reply) ==
    IF reply.err THEN Raise("HTTPError") ELSE ReturnMetadata(reply.body)

get_dataset_metadata(dataset_id) ==
    /\ pc = "idle"
    /\ calls < MaxCalls
    /\ calls' = calls + 1
    /\ ReadClient
    /\ \E reply \in MetadataReplies :
        /\ log' = <<Request("get_metadata", dataset_id, Absent, Absent, Absent,
                            Absent, Head(_client').serial, ~reply.err, <<>>)>>
        /\ outcome' = get_dataset_metadata_result(reply)
    /\ call' = [name |-> "get_dataset_metadata", args |-> <<dataset_id>>]
    /\ UNCHANGED <<_app_token, pc, Locals, Ghosts, World>>

\* dataset_last_updated's return value or exception, given the reply
dataset_last_updated_result(reply, utc_offset) ==
    LET metadata == get_dataset_metadata_result(reply) IN
    IF metadata.kind = "raise" THEN metadata
    ELSE IF metadata.metadata.rowsUpdatedAt = Absent THEN Raise("KeyError")
    ELSE ReturnTime(localtime(Head(metadata.metadata.rowsUpdatedAt),
                              utc_offset))

dataset_last_updated(dataset_id) ==
    /\ pc = "idle"
    /\ calls < MaxCalls
    /\ calls' = calls + 1
    /\ ReadClient
    /\ \E reply \in MetadataReplies, utc_offset \in UtcOffsets :
        /\ log' = <<Request("get_metadata", dataset_id, Absent, Absent, Absent,
                            Absent, Head(_client').serial, ~reply.err, <<>>)>>
        /\ outcome' = dataset_last_updated_result(reply, utc_offset)
    /\ call' = [name |-> "dataset_last_updated", args |-> <<dataset_id>>]
    /\ UNCHANGED <<_app_token, pc, Locals, Ghosts, World>>

\* get_dataset_count taking a reply it cannot read for a count of 0
get_dataset_count_result_default(reply) ==
    IF reply.err \/ reply.body = <<>> THEN ReturnInt(0)
    ELSE IF ~IsNumeric(reply.body[1].count) THEN ReturnInt(0)
    ELSE ReturnInt(int(reply.body[1].count))

\* get_dataset_count's return value or exception, given the reply
get_dataset_count_result(reply) ==
    IF reply.err THEN Raise("HTTPError")
    ELSE IF reply.body = <<>> THEN Raise("IndexError")
    ELSE IF ~IsNumeric(reply.body[1].count) THEN Raise("ValueError")
    ELSE ReturnInt(int(reply.body[1].count))

\* The record of get_dataset_count's query
CountRequest(dataset_id, via, reply) ==
    Request("get", dataset_id, Some("count(*)"), Absent, Absent, Absent,
            via, ~reply.err, reply.body)

get_dataset_count(dataset_id) ==
    /\ pc = "idle"
    /\ calls < MaxCalls
    /\ calls' = calls + 1
    /\ ReadClient
    /\ \E reply \in CountReplies(remote) :
        /\ log' = <<CountRequest(dataset_id, Head(_client').serial, reply)>>
        /\ outcome' = get_dataset_count_result(reply)
    /\ call' = [name |-> "get_dataset_count", args |-> <<dataset_id>>]
    /\ UNCHANGED <<_app_token, pc, Locals, Ghosts, World>>

\* get_dataset's return value or exception, given the reply
get_dataset_result(reply) ==
    IF reply.err THEN Raise("HTTPError") ELSE ReturnRows(reply.body)

\* The record of get_dataset's query: client.get(dataset_id, limit=100000)
DatasetRequest(dataset_id, via, reply) ==
    Request("get", dataset_id, Absent, Absent, Absent,
            Some(get_dataset_limit), via, ~reply.err, reply.body)

\* The replies to get_dataset's query.  It names no order and no offset:
\* the service answers from the first row, here in key order.
DatasetReplies == PageReplies(remote, 0, get_dataset_limit)

get_dataset(dataset_id) ==
    /\ pc = "idle"
    /\ calls < MaxCalls
    /\ calls' = calls + 1
    /\ ReadClient
    /\ \E reply \in DatasetReplies :
        /\ log' = <<DatasetRequest(dataset_id, Head(_client').serial, reply)>>
        /\ outcome' = get_dataset_result(reply)
    /\ call' = [name |-> "get_dataset", args |-> <<dataset_id>>]
    /\ UNCHANGED <<_app_token, pc, Locals, Ghosts, World>>

\* get_dataframe's calls to its collaborators, given the reply: the query of
\* get_dataset, then the column lookup, then from_records
get_dataframe_log(dataset_id, via, reply) ==
    <<DatasetRequest(dataset_id, via, reply)>> \o
    (IF get_dataset_result(reply).kind = "raise" THEN <<>>
     ELSE IF dataset_id \notin DOMAIN WSLCB_PORTAL_DATASET_COLUMNS THEN <<>>
     ELSE <<Request("from_records", dataset_id, Absent, Absent, Absent, Absent,
                    via, TRUE, <<>>)>>)

\* get_dataframe with no columns for an id the table does not hold
get_dataframe_result_default(dataset_id, reply) ==
    LET got == get_dataset_result(reply) IN
    IF got.kind = "raise" THEN got
    ELSE IF dataset_id \notin DOMAIN WSLCB_PORTAL_DATASET_COLUMNS
         THEN ReturnFrame(from_records(got.rows, <<>>))
    ELSE ReturnFrame(from_records(got.rows,
                                  WSLCB_PORTAL_DATASET_COLUMNS[dataset_id]))

\* get_dataframe's return value or exception, given the reply
get_dataframe_result(dataset_id, reply) ==
    LET got == get_dataset_result(reply) IN
    IF got.kind = "raise" THEN got
    ELSE IF dataset_id \notin DOMAIN WSLCB_PORTAL_DATASET_COLUMNS
         THEN Raise("KeyError")
    ELSE ReturnFrame(from_records(got.rows,
                                  WSLCB_PORTAL_DATASET_COLUMNS[dataset_id]))

get_dataframe(dataset_id) ==
    /\ pc = "idle"
    /\ calls < MaxCalls
    /\ calls' = calls + 1
    /\ ReadClient
    /\ \E reply \in DatasetReplies :
        /\ log' = get_dataframe_log(dataset_id, Head(_client').serial, reply)
        /\ outcome' = get_dataframe_result(dataset_id, reply)
    /\ call' = [name |-> "get_dataframe", args |-> <<dataset_id>>]
    /\ UNCHANGED <<_app_token, pc, Locals, Ghosts, World>>

\* The race damage in the rows get_entire_dataset returns: a row the remote
\* held all through the call is missing, or a row occurs twice.
Damage(rows, held_throughout) ==
    (IF \E s \in held_throughout : ~Covers(rows, Seg(s))
     THEN {"skipped"} ELSE {})
    \cup (IF HasDuplicate(rows) THEN {"duplicated"} ELSE {})

\* get_entire_dataset returns rows: its frame is gone.
ReturnDataset(rows, held_throughout) ==
    /\ pc' = "idle"
    /\ outcome' = ReturnRows(rows)
    /\ count' = 0
    /\ offsets' = <<>>
    /\ dataset' = <<>>
    /\ present' = {}
    /\ anomalies' = anomalies \cup Damage(rows, held_throughout)

\* An exception leaves get_entire_dataset: its frame is gone.
RaiseFromDataset(exc) ==
    /\ pc' = "idle"
    /\ outcome' = exc
    /\ count' = 0
    /\ offsets' = <<>>
    /\ dataset' = <<>>
    /\ present' = {}
    /\ UNCHANGED anomalies

\* get_entire_dataset, from its call to its first page request (or to its
\* end, when the count query raises or the range is empty)
get_entire_dataset(dataset_id, order_by) ==
    /\ pc = "idle"
    /\ calls < MaxCalls
    /\ calls' = calls + 1
    /\ ReadClient
    /\ call' = [name |-> "get_entire_dataset", args |-> <<dataset_id, order_by>>]
    /\ dirty' = FALSE
    /\ \E reply \in CountReplies(remote) :
        LET got == get_dataset_count_result(reply) IN
        /\ log' = <<CountRequest(dataset_id, Head(_client').serial, reply)>>
        /\ IF got.kind = "raise" THEN RaiseFromDataset(got)
           ELSE IF range(0, got.value, limit) = <<>>
                THEN ReturnDataset(<<>>, remote)
           ELSE /\ pc' = "paging"
                /\ outcome' = Pending
                /\ count' = got.value
                /\ offsets' = range(0, got.value, limit)
                /\ dataset' = <<>>
                /\ present' = remote
                /\ UNCHANGED anomalies
    /\ UNCHANGED <<_app_token, World>>

\* The record of one page request of get_entire_dataset
PageRequest(offset, via, reply) ==
    Request("get", call.args[1], Absent, Some(call.args[2]), Some(offset),
            Some(limit), via, ~reply.err, reply.body)

\* One turn of get_entire_dataset's loop whose request succeeds (and the
\* return, after the last one)
get_entire_dataset_page ==
    /\ pc = "paging"
    /\ ReadClient
    /\ \E reply \in PageReplies(remote, Head(offsets), limit) :
        /\ ~reply.err
        /\ log' = Append(log, PageRequest(Head(offsets),
                                          Head(_client').serial, reply))
        /\ IF Tail(offsets) = <<>>
           THEN ReturnDataset(extend(dataset, reply.body), present)
           ELSE /\ dataset' = extend(dataset, reply.body)
                /\ offsets' = Tail(offsets)
                /\ UNCHANGED <<pc, outcome, count, present, anomalies>>
    /\ UNCHANGED <<_app_token, call, dirty, calls, World>>

\* the loop catching the exception and going on to the next offset
get_entire_dataset_page_swallows ==
    /\ pc = "paging"
    /\ ReadClient
    /\ \E reply \in PageReplies(remote, Head(offsets), limit) :
        /\ reply.err
        /\ log' = Append(log, PageRequest(Head(offsets),
                                          Head(_client').serial, reply))
        /\ IF Tail(offsets) = <<>>
           THEN ReturnDataset(dataset, present)
           ELSE /\ offsets' = Tail(offsets)
                /\ UNCHANGED <<pc, outcome, count, dataset, present, anomalies>>
    /\ UNCHANGED <<_app_token, call, dirty, calls, World>>

\* One turn of get_entire_dataset's loop whose request raises: nothing
\* catches the exception
get_entire_dataset_page_raises ==
    /\ pc = "paging"
    /\ ReadClient
    /\ \E reply \in PageReplies(remote, Head(offsets), limit) :
        /\ reply.err
        /\ log' = Append(log, PageRequest(Head(offsets),
                                          Head(_client').serial, reply))
        /\ RaiseFromDataset(Raise("HTTPError"))
    /\ UNCHANGED <<_app_token, call, dirty, calls, World>>

(***************************************************************************)
(* Another process writing the remote dataset.                             *)
(***************************************************************************)
remote_insert(s) ==
    /\ s \notin remote
    /\ writes < MaxWrites
    /\ writes' = writes + 1
    /\ remote' = remote \cup {s}
    /\ dirty' = TRUE
    /\ UNCHANGED <<env, ctor_arg, _app_token, _client, Socrata_calls, present,
                   anomalies, pc, call, Locals, log, outcome, calls>>

remote_delete(s) ==
    /\ s \in remote
    /\ writes < MaxWrites
    /\ writes' = writes + 1
    /\ remote' = remote \ {s}
    /\ dirty' = TRUE
    /\ present' = present \ {s}
    /\ UNCHANGED <<env, ctor_arg, _app_token, _client, Socrata_calls,
                   anomalies, pc, call, Locals, log, outcome, calls>>

(***************************************************************************)
(* The specification.                                                      *)
(***************************************************************************)
Init ==
    /\ env \in EnvValues
    /\ ctor_arg \in CtorArgs
    /\ _app_token = __init__(ctor_arg, env)
    /\ _client = None
    /\ Socrata_calls = 0
    /\ remote \in SUBSET Segments
    /\ dirty = FALSE
    /\ present = {}
    /\ anomalies = {}
    /\ pc = "idle"
    /\ call = [name |-> "__init__", args |-> <<ctor_arg>>]
    /\ count = 0
    /\ offsets = <<>>
    /\ dataset = <<>>
    /\ log = <<>>
    /\ outcome = ReturnNone
    /\ calls = 0
    /\ writes = 0

\* A call of one of WSLCBPortal's methods.
ApiCall ==
    \/ \E value \in SetValues : set_app_token(value)
    \/ \E dataset_id \in DatasetIds : get_dataset_metadata(dataset_id)
    \/ \E dataset_id \in DatasetIds : dataset_last_updated(dataset_id)
    \/ \E dataset_id \in DatasetIds : get_dataset_count(dataset_id)
    \/ \E dataset_id \in DatasetIds : get_dataset(dataset_id)
    \/ \E dataset_id \in DatasetIds : get_dataframe(dataset_id)
    \/ \E dataset_id \in DatasetIds, order_by \in OrderBys :
           get_entire_dataset(dataset_id, order_by)

\* A turn of the loop of a get_entire_dataset call under way.
PagingStep ==
    \/ get_entire_dataset_page
    \/ get_entire_dataset_page_raises

\* A write of the remote dataset by another process.
RemoteWrite ==
    \/ \E s \in Segments : remote_insert(s)
    \/ \E s \in Segments : remote_delete(s)

Next == ApiCall \/ PagingStep \/ RemoteWrite

\* The whole system: every method, and the remote dataset written meanwhile.
Spec == Init /\ [][Next]_vars

\* The client alone, every method of it, against a remote dataset that
\* nothing writes.
ApiNext == ApiCall \/ PagingStep

ApiSpec == Init /\ [][ApiNext]_vars

\* get_entire_dataset alone, against a remote dataset written meanwhile.
PagingNext ==
    \/ \E dataset_id \in DatasetIds, order_by \in OrderBys :
           get_entire_dataset(dataset_id, order_by)
    \/ PagingStep
    \/ RemoteWrite

PagingSpec == Init /\ [][PagingNext]_vars

(***************************************************************************)
(* What the claims speak of.                                               *)
(***************************************************************************)
\* The last API call is get_entire_dataset and its count query was answered
\* with a count that int() reads.
Counted ==
    /\ call.name = "get_entire_dataset"
    /\ log # <<>>
    /\ log[1].ok
    /\ log[1].reply # <<>>
    /\ \A i \in DOMAIN log[1].reply[1].count :
           log[1].reply[1].count[i] \in
               {"0", "1", "2", "3", "4", "5", "6", "7", "8", "9"}

\* The value of a string of digits, most significant first.
RECURSIVE ValueOf(_)
ValueOf(s) ==
    IF s = <<>> THEN 0
    ELSE LET d == CHOOSE k \in 0..9 : DigitChar[k + 1] = s[Len(s)] IN
         10 * ValueOf(SubSeq(s, 1, Len(s) - 1)) + d

\* N: the count get_dataset_count returned to get_entire_dataset.
CountReturned == ValueOf(log[1].reply[1].count)

\* The page requests of the call, in the order issued.
PageLog == SubSeq(log, 2, Len(log))

\* The call has returned a sequence of rows.
ReturnedRows == pc = "idle" /\ outcome.kind = "rows"

RECURSIVE Concatenation(_)
\* The replies of the requests in entries, one after the other.
Concatenation(entries) ==
    IF entries = <<>> THEN <<>>
    ELSE Head(entries).reply \o Concatenation(Tail(entries))

\* C1: get_entire_dataset issues its page requests at offsets 0, P, 2P, ...
\* in ascending order, each below the count N it was given, each with limit
\* P = 100000 and order order_by; a call that returns has issued exactly
\* ceil(N / P) of them, and when the remote dataset was not written since
\* the count query it returns exactly N rows.
C1_PageRequests ==
    Counted =>
        /\ \A i \in DOMAIN PageLog :
            /\ PageLog[i].fn = "get"
            /\ PageLog[i].dataset_id = call.args[1]
            /\ PageLog[i].select = Absent
            /\ PageLog[i].order = Some(call.args[2])
            /\ PageLog[i].offset = Some((i - 1) * 100000)
            /\ (i - 1) * 100000 < CountReturned
            /\ PageLog[i].limit = Some(100000)
        /\ ReturnedRows =>
            Len(PageLog) = (CountReturned + 100000 - 1) \div 100000
        /\ (ReturnedRows /\ ~dirty) =>
            RowCount(outcome.rows) = CountReturned

\* C1's case: a count of 250000, offsets 0, 100000 and 200000, a last page
\* of 50000 rows and 250000 rows returned.
C1_Witness ==
    /\ Counted
    /\ ReturnedRows
    /\ ~dirty
    /\ CountReturned = 250000
    /\ Len(PageLog) = 3
    /\ PageLog[3].offset = Some(200000)
    /\ RowCount(PageLog[3].reply) = 50000
    /\ RowCount(outcome.rows) = 250000

\* C2: the rows get_entire_dataset returns are the replies to its page
\* requests concatenated in the order of the requests, each reply's rows in
\* the order received: none dropped, doubled or moved.
C2_Concatenation ==
    (call.name = "get_entire_dataset" /\ ReturnedRows) =>
        outcome.rows = Concatenation(PageLog)

\* C2's case: a call that returned the rows of three pages.
C2_Witness ==
    /\ call.name = "get_entire_dataset"
    /\ ReturnedRows
    /\ Len(PageLog) = 3
    /\ \A i \in DOMAIN PageLog : PageLog[i].reply # <<>>
    /\ Len(outcome.rows) >= 3

\* C3: given a count of 0, get_entire_dataset returns the empty sequence
\* and its count query is the only remote call it made.
C3_ZeroCount ==
    (Counted /\ CountReturned = 0) =>
        /\ pc = "idle"
        /\ outcome = ReturnRows(<<>>)
        /\ Len(log) = 1

\* C3's case: a call that was given a count of 0.
C3_Witness ==
    /\ Counted
    /\ CountReturned = 0
    /\ outcome.kind = "rows"

\* C4: a page request of get_entire_dataset that fails is the last request
\* of the call (none follows it, and it is not sent again), and the call is
\* over in that error, returning no rows.
C4_PageFailureAborts ==
    call.name = "get_entire_dataset" =>
        \A i \in DOMAIN log :
            (i >= 2 /\ ~log[i].ok) =>
                /\ i = Len(log)
                /\ pc = "idle"
                /\ outcome = Raise("HTTPError")

\* C4's case: the third page request failed after two pages were fetched.
C4_Witness ==
    /\ call.name = "get_entire_dataset"
    /\ Len(log) = 4
    /\ log[2].ok /\ log[2].reply # <<>>
    /\ log[3].ok /\ log[3].reply # <<>>
    /\ ~log[4].ok
    /\ outcome.kind = "raise"

\* C5: when the remote dataset was not written between the count query and
\* the last page request, the rows get_entire_dataset returns are the rows
\* of the remote dataset in its order_by order, none skipped and none
\* twice.  (With such writes, rows held all through the call are skipped
\* and rows are returned twice: the witness has seen both.)
C5_NoWriteNoDamage ==
    (call.name = "get_entire_dataset" /\ ReturnedRows /\ ~dirty) =>
        /\ Canonical(outcome.rows) = Canonical(RemoteRows(remote))
        /\ ~HasDuplicate(outcome.rows)
        /\ \A s \in remote : Covers(outcome.rows, Seg(s))

\* C5's case: an earlier call, with writes during it, returned rows with a
\* row skipped and a row twice; this call, with none, returned three pages.
C5_Witness ==
    /\ anomalies = {"skipped", "duplicated"}
    /\ call.name = "get_entire_dataset"
    /\ ReturnedRows
    /\ ~dirty
    /\ Len(PageLog) = 3

\* C10: the first remote call of get_entire_dataset is its count query and
\* it makes no other; when that query fails (an error of the service, an
\* empty result, a count that is no number) the call is over in that error
\* with no page request made and no rows returned.
C10_CountFirst ==
    call.name = "get_entire_dataset" =>
        /\ Len(log) >= 1
        /\ log[1].select = Some("count(*)")
        /\ \A i \in DOMAIN log : i >= 2 => log[i].select = Absent
        /\ ~Counted =>
            /\ Len(log) = 1
            /\ pc = "idle"
            /\ outcome = Raise(IF ~log[1].ok THEN "HTTPError"
                               ELSE IF log[1].reply = <<>> THEN "IndexError"
                               ELSE "ValueError")

\* C10's case: the count query was answered with a count that is no number.
C10_Witness ==
    /\ call.name = "get_entire_dataset"
    /\ log[1].ok
    /\ log[1].reply # <<>>
    /\ ~Counted
    /\ outcome = Raise("ValueError")

\* C6: the handle is built at most once, on the first read of the client
\* property, from the portal address and the token held at that read; from
\* then on self._client never changes (not to None, not to another handle,
\* not in the token it was built with, whatever the setter is given), and
\* every remote call goes through that one handle.
C6_HandleBuiltOnce ==
    /\ [](Socrata_calls <= 1 /\ (_client = None <=> Socrata_calls = 0))
    /\ [][/\ (_client = None /\ _client' # None) =>
                Head(_client') = [domain |-> "data.lcb.wa.gov",
                                  app_token |-> _app_token,
                                  serial |-> 1]
          /\ _client # None => _client' = _client
          /\ log' # <<>> =>
                /\ _client' # None
                /\ \A i \in DOMAIN log' : log'[i].via = Head(_client').serial
         ]_vars

\* C6's case: the handle was built, the token was then set to another
\* value, and a method has since made a remote call.
C6_Witness ==
    /\ _client # None
    /\ Head(_client).app_token # _app_token
    /\ call.name \notin {"__init__", "app_token.setter"}
    /\ log # <<>>
    /\ Socrata_calls = 1

\* C7: right after construction the token is the constructor's argument
\* when that is not empty, whatever the environment holds; the environment
\* variable's value when the argument is empty and the variable is set; and
\* the empty string when the argument is empty and the variable is not set.
C7_TokenPrecedence ==
    call.name = "__init__" =>
        /\ ctor_arg # "" => _app_token = ctor_arg
        /\ (ctor_arg = "" /\ env # Absent) => _app_token = Head(env)
        /\ (ctor_arg = "" /\ env = Absent) => _app_token = ""

\* C7's case: constructed with an argument while the variable is set to
\* another value.
C7_Witness ==
    /\ call.name = "__init__"
    /\ ctor_arg = "arg-token"
    /\ env = Some("env-token")
    /\ _app_token = "arg-token"

\* C8: get_dataset makes exactly one remote call, a query with limit 100000
\* and neither offset nor order nor select, and returns at most 100000 rows
\* however many the remote dataset holds.
C8_OneCappedQuery ==
    call.name = "get_dataset" =>
        /\ Len(log) = 1
        /\ log[1].fn = "get"
        /\ log[1].limit = Some(100000)
        /\ log[1].offset = Absent
        /\ log[1].order = Absent
        /\ log[1].select = Absent
        /\ outcome.kind = "rows" => RowCount(outcome.rows) <= 100000

\* C8's case: the remote dataset holds 250000 rows and get_dataset returned
\* 100000 of them.
C8_Witness ==
    /\ call.name = "get_dataset"
    /\ RowCount(RemoteRows(remote)) = 250000
    /\ outcome.kind = "rows"
    /\ RowCount(outcome.rows) = 100000

\* The last API call's dataset id is a key of the column table.
KnownId == call.args[1] \in DOMAIN WSLCB_PORTAL_DATASET_COLUMNS

\* get_dataframe attempted a tabular construction.
Constructed == \E i \in DOMAIN log : log[i].fn = "from_records"

\* C9, as claimed: get_dataframe with an id that is no key of the column
\* table ends in a lookup failure, with no tabular construction attempted
\* and no frame; with an id of the table, a frame it returns has the
\* declared columns in the declared order.
C9_AsClaimed ==
    call.name = "get_dataframe" =>
        /\ ~KnownId => (outcome = Raise("KeyError") /\ ~Constructed)
        /\ (KnownId /\ outcome.kind = "frame") =>
               outcome.frame.columns =
                   WSLCB_PORTAL_DATASET_COLUMNS[call.args[1]]

\* C9, amended: get_dataframe with an id that is no key of the column table
\* returns no frame and attempts no tabular construction: it ends in the
\* remote error when its page query fails, and otherwise in a lookup
\* failure; with an id of the table, it ends in the remote error when its
\* page query fails, and otherwise returns a frame with the declared columns
\* in the declared order.
C9_LookupAfterQuery ==
    call.name = "get_dataframe" =>
        /\ log # <<>>
        /\ log[1].fn = "get"
        /\ ~KnownId =>
            /\ outcome = Raise(IF log[1].ok THEN "KeyError" ELSE "HTTPError")
            /\ ~Constructed
        /\ KnownId =>
            IF log[1].ok
            THEN /\ outcome.kind = "frame"
                 /\ outcome.frame.columns =
                        WSLCB_PORTAL_DATASET_COLUMNS[call.args[1]]
                 /\ call.args[1] = "3qmf-vgdg" =>
                        outcome.frame.columns =
                            <<"date", "license_number", "county_name",
                              "city_name", "action">>
            ELSE outcome = Raise("HTTPError") /\ ~Constructed

\* C9's case: an id that is no key of the table, a page query that
\* succeeded, and the lookup failure.
C9_Witness ==
    /\ call.name = "get_dataframe"
    /\ ~KnownId
    /\ log[1].ok
    /\ outcome = Raise("KeyError")

====
